---- MODULE Spec2Model ----
(***************************************************************************)
(* Model of trybuild's src/normalize.rs: trim, diagnostics, Variations,    *)
(* apply, filter and replace_case_insensitive.                             *)
(*                                                                         *)
(* A string is a sequence of characters, each character a one-element      *)
(* TLA+ string. A raw byte sequence is the same, with InvalidByte standing *)
(* for a byte that is not valid UTF-8; from_utf8_lossy decodes it to       *)
(* ReplacementChar (U+FFFD).                                               *)
(***************************************************************************)
EXTENDS Integers, Sequences, FiniteSets, TLC

VARIABLES
    input,          \* the bytes / text / line handed to the operation
    context,        \* Context {krate, source_dir, workspace}
    pc,             \* "output" or "line" (what was handed over), then the operation that has run
    normalization,  \* the Normalization level the operation ran at
    from,           \* replace_case_insensitive: the from path
    to,             \* replace_case_insensitive: the to token
    ret,            \* what the operation returned: [tag, val]
    variations      \* Variations.variations after diagnostics

vars == <<input, context, pc, normalization, from, to, ret, variations>>

----------------------------------------------------------------------------
(* Literals of the source. *)

\* The grave accent (U+0060), which a TLA+ string cannot hold.
Backtick == "U+0060"

Arrow == <<"-", "-", ">", " ">>
Colons == <<":", ":", ":", " ">>
DirSlash == <<"$", "D", "I", "R", "/">>
DirToken == <<"$", "D", "I", "R">>
WorkspaceToken == <<"$", "W", "O", "R", "K", "S", "P", "A", "C", "E">>
CrateToken == <<"$", "C", "R", "A", "T", "E">>
RustToken == <<"$", "R", "U", "S", "T">>
RustlibMarker == <<"/", "r", "u", "s", "t", "l", "i", "b", "/", "s", "r", "c", "/", "r", "u", "s", "t", "/", "s", "r", "c", "/">>
AbortingDueTo == <<"e", "r", "r", "o", "r", ":", " ", "a", "b", "o", "r", "t", "i", "n", "g", " ", "d", "u", "e", " ", "t", "o", " ">>
ToLearnMore == <<"T", "o", " ", "l", "e", "a", "r", "n", " ", "m", "o", "r", "e", ",", " ", "r", "u", "n", " ", "t", "h", "e", " ", "c", "o", "m", "m", "a", "n", "d", " ", "a", "g", "a", "i", "n", " ", "w", "i", "t", "h", " ", "-", "-", "v", "e", "r", "b", "o", "s", "e", ".">>
CouldNotCompileUpper == <<"e", "r", "r", "o", "r", ":", " ", "C", "o", "u", "l", "d", " ", "n", "o", "t", " ", "c", "o", "m", "p", "i", "l", "e", " ", Backtick>>
CouldNotCompileLower == <<"e", "r", "r", "o", "r", ":", " ", "c", "o", "u", "l", "d", " ", "n", "o", "t", " ", "c", "o", "m", "p", "i", "l", "e", " ", Backtick>>
ForMoreInformationThis == <<"F", "o", "r", " ", "m", "o", "r", "e", " ", "i", "n", "f", "o", "r", "m", "a", "t", "i", "o", "n", " ", "a", "b", "o", "u", "t", " ", "t", "h", "i", "s", " ", "e", "r", "r", "o", "r", ",", " ", "t", "r", "y", " ", Backtick, "r", "u", "s", "t", "c", " ", "-", "-", "e", "x", "p", "l", "a", "i", "n">>
SomeErrorsDetailed == <<"S", "o", "m", "e", " ", "e", "r", "r", "o", "r", "s", " ", "h", "a", "v", "e", " ", "d", "e", "t", "a", "i", "l", "e", "d", " ", "e", "x", "p", "l", "a", "n", "a", "t", "i", "o", "n", "s", ":">>
ForMoreInformationAn == <<"F", "o", "r", " ", "m", "o", "r", "e", " ", "i", "n", "f", "o", "r", "m", "a", "t", "i", "o", "n", " ", "a", "b", "o", "u", "t", " ", "a", "n", " ", "e", "r", "r", "o", "r", ",", " ", "t", "r", "y", " ", Backtick, "r", "u", "s", "t", "c", " ", "-", "-", "e", "x", "p", "l", "a", "i", "n">>

----------------------------------------------------------------------------
(* The Normalization enum: its derived PartialOrd is the declaration order. *)

Basic == 0
StripCouldNotCompile == 1
StripCouldNotCompile2 == 2
StripForMoreInformation == 3
StripForMoreInformation2 == 4
DirBackslash == 5
TrimEnd == 6
RustLib == 7

\* The array literal iterated by diagnostics, in its order.
Levels == <<Basic, StripCouldNotCompile, StripCouldNotCompile2,
            StripForMoreInformation, StripForMoreInformation2,
            DirBackslash, TrimEnd, RustLib>>

----------------------------------------------------------------------------
(* Results: Option<String> of filter, and a panic as a third outcome. *)

Ok(v) == [tag |-> "Ok", val |-> v]
Some(v) == [tag |-> "Some", val |-> v]
None == [tag |-> "None", val |-> <<>>]
Panic == [tag |-> "Panic", val |-> <<>>]
Unset == [tag |-> "Unset", val |-> <<>>]

----------------------------------------------------------------------------
(* The std string functions the source calls. *)

InvalidByte == "0xFF"
ReplacementChar == "U+FFFD"

\* String::from_utf8_lossy: an invalid byte decodes to U+FFFD.
from_utf8_lossy(bytes) ==
    [i \in 1..Len(bytes) |-> IF bytes[i] = InvalidByte THEN ReplacementChar ELSE bytes[i]]

\* char::is_whitespace, on the characters the model draws.
is_whitespace(c) == c \in {" ", "\t", "\n", "\r", "\f"}

UpperCase == <<"A", "B", "C", "D", "E", "F", "G", "H", "I", "J", "K", "L", "M", "N", "O", "P", "Q", "R", "S", "T", "U", "V", "W", "X", "Y", "Z">>
LowerCase == <<"a", "b", "c", "d", "e", "f", "g", "h", "i", "j", "k", "l", "m", "n", "o", "p", "q", "r", "s", "t", "u", "v", "w", "x", "y", "z">>

\* u8::to_ascii_lowercase on one character.
AsciiLowercase ==
    [c \in {UpperCase[i] : i \in 1..Len(UpperCase)} |->
        LowerCase[CHOOSE i \in 1..Len(UpperCase) : UpperCase[i] = c]]

char_to_ascii_lowercase(c) ==
    IF c \in DOMAIN AsciiLowercase THEN AsciiLowercase[c] ELSE c

\* str::to_ascii_lowercase: same length, only A-Z change.
to_ascii_lowercase(s) == [i \in 1..Len(s) |-> char_to_ascii_lowercase(s[i])]

\* str::trim_end: strip trailing whitespace.
RECURSIVE trim_end(_)
trim_end(s) ==
    IF s = <<>> THEN s
    ELSE IF is_whitespace(s[Len(s)]) THEN trim_end(SubSeq(s, 1, Len(s) - 1))
    ELSE s

\* str::trim_start: strip leading whitespace.
RECURSIVE trim_start(_)
trim_start(s) ==
    IF s = <<>> THEN s
    ELSE IF is_whitespace(s[1]) THEN trim_start(Tail(s))
    ELSE s

\* p occurs in s at 0-based offset i.
matches_at(s, p, i) == i + Len(p) <= Len(s) /\ \A k \in 1..Len(p) : s[i + k] = p[k]

\* str::starts_with.
starts_with(s, p) == matches_at(s, p, 0)

\* str::ends_with.
ends_with(s, p) == Len(s) >= Len(p) /\ matches_at(s, p, Len(s) - Len(p))

\* The least of a set of offsets, -1 (None) for the empty set.
first_offset(found) ==
    IF found = {} THEN -1 ELSE CHOOSE i \in found : \A j \in found : i <= j

\* The greatest of a set of offsets, -1 (None) for the empty set.
last_offset(found) ==
    IF found = {} THEN -1 ELSE CHOOSE i \in found : \A j \in found : j <= i

\* str::find: the 0-based offset of the first occurrence, -1 for None.
find(s, p) == first_offset({i \in 0..(Len(s) - Len(p)) : matches_at(s, p, i)})

\* str::rfind(&['/', '\\'][..]): the 0-based offset of the last separator, -1 for None.
rfind_separator(s) == last_offset({i \in 0..(Len(s) - 1) : s[i + 1] \in {"/", "\\"}})

\* str::replace from 0-based offset i on, for a non-empty pattern: non-overlapping
\* matches, left to right; k is where the next match begins after i, -1 for none.
RECURSIVE replace_from(_, _, _, _)
replace_next(s, pat, with, i, k) ==
    IF k < 0 THEN SubSeq(s, i + 1, Len(s))
    ELSE SubSeq(s, i + 1, i + k) \o with \o replace_from(s, pat, with, i + k + Len(pat))

replace_from(s, pat, with, i) ==
    replace_next(s, pat, with, i, find(SubSeq(s, i + 1, Len(s)), pat))

\* str::replace; an empty pattern matches at every character boundary, so the
\* replacement goes before every character and after the last.
replace(s, pat, with) ==
    IF pat = <<>>
    THEN [j \in 1..(Len(s) * (Len(with) + 1) + Len(with)) |->
            IF (j - 1) % (Len(with) + 1) < Len(with)
            THEN with[((j - 1) % (Len(with) + 1)) + 1]
            ELSE s[((j - 1) \div (Len(with) + 1)) + 1]]
    ELSE replace_from(s, pat, with, 0)

\* str::split from offset i on, for a non-empty pattern; k is where the next
\* match begins after i, -1 for none.
RECURSIVE split_from(_, _, _)
split_next(s, pat, i, k) ==
    IF k < 0 THEN <<SubSeq(s, i + 1, Len(s))>>
    ELSE <<SubSeq(s, i + 1, i + k)>> \o split_from(s, pat, i + k + Len(pat))

split_from(s, pat, i) == split_next(s, pat, i, find(SubSeq(s, i + 1, Len(s)), pat))

\* str::split(&str), collected: an empty pattern yields "", each character, "".
split(s, pat) ==
    IF pat = <<>>
    THEN <<(<<>>)>> \o [i \in 1..Len(s) |-> <<s[i]>>] \o <<(<<>>)>>
    ELSE split_from(s, pat, 0)

\* A line that ended at "\n" loses one "\r" before it.
strip_cr(line) ==
    IF line # <<>> /\ line[Len(line)] = "\r" THEN SubSeq(line, 1, Len(line) - 1) ELSE line

\* str::lines from offset i on; k is where the next "\n" is after i, -1 for
\* none: a last line without "\n" is returned as it is, and nothing follows a
\* final "\n".
RECURSIVE lines_from(_, _)
lines_next(s, i, k) ==
    IF i >= Len(s) THEN <<>>
    ELSE IF k < 0 THEN <<SubSeq(s, i + 1, Len(s))>>
    ELSE <<strip_cr(SubSeq(s, i + 1, i + k))>> \o lines_from(s, i + k + 1)

lines_from(s, i) == lines_next(s, i, find(SubSeq(s, i + 1, Len(s)), <<"\n">>))

\* str::lines, collected.
lines(s) == lines_from(s, 0)

----------------------------------------------------------------------------
(* trim *)

\* normalized.truncate(normalized.trim_end().len())
truncate_trimmed(normalized) == SubSeq(normalized, 1, Len(trim_end(normalized)))

\* if !normalized.is_empty() { normalized.push('\n') }
push_newline(normalized) ==
    IF normalized # <<>> THEN Append(normalized, "\n") ELSE normalized

\* trim with the newline pushed whether or not anything remains.
trim_always_newline(output) == Append(truncate_trimmed(from_utf8_lossy(output)), "\n")

trim(output) == push_newline(truncate_trimmed(from_utf8_lossy(output)))

----------------------------------------------------------------------------
(* replace_case_insensitive *)

\* &self[a..b]: in range and not inverted, or a panic.
slice_ok(s, a, b) == a <= b /\ b <= Len(s)

\* The concatenation of a sequence of strings, by halves.
RECURSIVE concat(_)
concat(ss) ==
    IF ss = <<>> THEN <<>>
    ELSE IF Len(ss) = 1 THEN ss[1]
    ELSE concat(SubSeq(ss, 1, Len(ss) \div 2))
         \o concat(SubSeq(ss, (Len(ss) \div 2) + 1, Len(ss)))

\* The lengths of ss[lo..hi] added up, by halves.
RECURSIVE total_len(_, _, _)
total_len(ss, lo, hi) ==
    IF lo > hi THEN 0
    ELSE IF lo = hi THEN Len(ss[lo])
    ELSE total_len(ss, lo, (lo + hi) \div 2) + total_len(ss, ((lo + hi) \div 2) + 1, hi)

\* idx when element k of split is pushed: past the k - 1 elements before it
\* and past k - 1 patterns.
rci_idx(sp, k, pat_len) == total_len(sp, 1, k - 1) + (k - 1) * pat_len

\* The loop of replace_case_insensitive over the elements of split, unrolled:
\* each element pushes &self[idx..idx+next_len], every element but the first
\* after the token. A slice of self out of range is a panic.
rci_loop(self, sp, token, pat_len) ==
    IF \E k \in 1..Len(sp) :
          ~slice_ok(self, rci_idx(sp, k, pat_len), rci_idx(sp, k, pat_len) + Len(sp[k]))
    THEN Panic
    ELSE Ok(concat([k \in 1..Len(sp) |->
                     (IF k = 1 THEN <<>> ELSE token)
                     \o SubSeq(self, rci_idx(sp, k, pat_len) + 1,
                               rci_idx(sp, k, pat_len) + Len(sp[k]))]))

\* replace_case_insensitive copying the unmatched text from the lowered copy.
replace_case_insensitive_casefolded(self, path, token) ==
    rci_loop(to_ascii_lowercase(self),
             split(to_ascii_lowercase(self), to_ascii_lowercase(path)),
             token, Len(to_ascii_lowercase(path)))

replace_case_insensitive(self, path, token) ==
    rci_loop(self,
             split(to_ascii_lowercase(self), to_ascii_lowercase(path)),
             token, Len(to_ascii_lowercase(path)))

----------------------------------------------------------------------------
(* filter *)

\* Path::to_string_lossy on a Context path.
to_string_lossy(path) == from_utf8_lossy(path)

\* The return of the "--> " rule, cutting one character too early.
points_at_join_short(line, cut_end, gt) ==
    IF gt < 0 THEN Panic
    ELSE IF ~slice_ok(line, 0, gt + 1) THEN Panic
    ELSE IF ~slice_ok(line, cut_end + 1, Len(line)) THEN Panic
    ELSE Some(SubSeq(line, 1, gt + 1) \o DirSlash \o SubSeq(line, cut_end + 2, Len(line)))

\* The return of the "--> " rule: gt is line.find('>'), unwrapped, and
\* cut_start is gt + 2.
points_at_join(line, cut_end, gt) ==
    IF gt < 0 THEN Panic
    ELSE IF ~slice_ok(line, 0, gt + 2) THEN Panic
    ELSE IF ~slice_ok(line, cut_end + 1, Len(line)) THEN Panic
    ELSE Some(SubSeq(line, 1, gt + 2) \o DirSlash \o SubSeq(line, cut_end + 2, Len(line)))

\* if let Some(cut_end) = line.rfind(..)
points_at_cut(line, cut_end) ==
    IF cut_end < 0 THEN Unset ELSE points_at_join(line, cut_end, find(line, <<">">>))

\* The "--> " rule: Unset when the rule does not return and filter goes on.
filter_points_at(line) ==
    IF starts_with(trim_start(line), Arrow)
    THEN points_at_cut(line, rfind_separator(line))
    ELSE Unset

\* if let Some(pos) = line.find(marker) { line.replace_range(colons + 4..pos + 17, "$RUST") },
\* colons being line.find("::: "), unwrapped.
secondary_collapse(line, pos, colons) ==
    IF pos < 0 THEN Some(line)
    ELSE IF colons < 0 THEN Panic
    ELSE IF ~slice_ok(line, colons + 4, pos + 17) THEN Panic
    ELSE Some(SubSeq(line, 1, colons + 4) \o RustToken \o SubSeq(line, pos + 17 + 1, Len(line)))

\* if normalization >= RustLib { .. }; return Some(line)
secondary_rust(line, level) ==
    IF level >= RustLib
    THEN secondary_collapse(line, find(line, RustlibMarker), find(line, Colons))
    ELSE Some(line)

\* .replace('\\', "/") on the line with the workspace replaced
secondary_slashes(replaced, level) ==
    IF replaced.tag = "Panic" THEN Panic
    ELSE secondary_rust(replace(replaced.val, <<"\\">>, <<"/">>), level)

\* The "::: " rule: Unset when the rule does not return and filter goes on.
filter_secondary(line, level, ctx) ==
    IF starts_with(trim_start(line), Colons)
    THEN secondary_slashes(
            replace_case_insensitive(line, to_string_lossy(ctx.workspace), WorkspaceToken),
            level)
    ELSE Unset

\* The drop rules with "Could not compile" stripped only above StripCouldNotCompile.
filter_drops_above(line, level) ==
    \/ starts_with(line, AbortingDueTo)
    \/ line = ToLearnMore
    \/ level > StripCouldNotCompile /\ starts_with(line, CouldNotCompileUpper)
    \/ level >= StripCouldNotCompile2 /\ starts_with(line, CouldNotCompileLower)
    \/ level >= StripForMoreInformation /\ starts_with(line, ForMoreInformationThis)
    \/ level >= StripForMoreInformation2 /\ starts_with(line, SomeErrorsDetailed)
    \/ level >= StripForMoreInformation2 /\ starts_with(line, ForMoreInformationAn)

\* The drop rules with "could not compile" stripped at StripCouldNotCompile2 alone.
filter_drops_at_level_only(line, level) ==
    \/ starts_with(line, AbortingDueTo)
    \/ line = ToLearnMore
    \/ level >= StripCouldNotCompile /\ starts_with(line, CouldNotCompileUpper)
    \/ level = StripCouldNotCompile2 /\ starts_with(line, CouldNotCompileLower)
    \/ level >= StripForMoreInformation /\ starts_with(line, ForMoreInformationThis)
    \/ level >= StripForMoreInformation2 /\ starts_with(line, SomeErrorsDetailed)
    \/ level >= StripForMoreInformation2 /\ starts_with(line, ForMoreInformationAn)

\* The rules that return None.
filter_drops(line, level) ==
    \/ starts_with(line, AbortingDueTo)
    \/ line = ToLearnMore
    \/ level >= StripCouldNotCompile /\ starts_with(line, CouldNotCompileUpper)
    \/ level >= StripCouldNotCompile2 /\ starts_with(line, CouldNotCompileLower)
    \/ level >= StripForMoreInformation /\ starts_with(line, ForMoreInformationThis)
    \/ level >= StripForMoreInformation2 /\ starts_with(line, SomeErrorsDetailed)
    \/ level >= StripForMoreInformation2 /\ starts_with(line, ForMoreInformationAn)

\* if normalization >= DirBackslash { line = line.replace(&source_dir_with_backslash, "$DIR/") }
redact_dir_backslash(line, level, ctx) ==
    IF level >= DirBackslash
    THEN replace(line, Append(to_string_lossy(ctx.source_dir), "\\"), DirSlash)
    ELSE line

\* if normalization >= TrimEnd { line.truncate(line.trim_end().len()) }
redact_trim_end(line, level) ==
    IF level >= TrimEnd THEN SubSeq(line, 1, Len(trim_end(line))) ELSE line

\* .replace(context.krate, "$CRATE")
redact_krate(line, ctx) == replace(line, ctx.krate, CrateToken)

\* Some(line) of the last replacement, or its panic.
redact_some(replaced) == IF replaced.tag = "Panic" THEN Panic ELSE Some(replaced.val)

\* .replace_case_insensitive(context.workspace, "$WORKSPACE")
redact_workspace(replaced, ctx) ==
    IF replaced.tag = "Panic" THEN Panic
    ELSE redact_some(replace_case_insensitive(replaced.val, to_string_lossy(ctx.workspace),
                                              WorkspaceToken))

\* .replace_case_insensitive(context.source_dir, "$DIR"), then the workspace
redact_source_dir(line, ctx) ==
    redact_workspace(
        replace_case_insensitive(line, to_string_lossy(ctx.source_dir), DirToken), ctx)

\* The rewrites without the package-name replacement.
filter_redact_without_crate(line, level, ctx) ==
    redact_source_dir(redact_trim_end(redact_dir_backslash(line, level, ctx), level), ctx)

\* The rewrites of a line that no rule has returned for.
filter_redact(line, level, ctx) ==
    redact_source_dir(
        redact_krate(redact_trim_end(redact_dir_backslash(line, level, ctx), level), ctx),
        ctx)

\* filter after the "::: " rule.
filter_rest(secondary, line, level, ctx) ==
    IF secondary.tag # "Unset" THEN secondary
    ELSE IF filter_drops(line, level) THEN None
    ELSE filter_redact(line, level, ctx)

\* filter after the "--> " rule.
filter_from_secondary(points_at, line, level, ctx) ==
    IF points_at.tag # "Unset" THEN points_at
    ELSE filter_rest(filter_secondary(line, level, ctx), line, level, ctx)

filter(line, level, ctx) ==
    filter_from_secondary(filter_points_at(line), line, level, ctx)

----------------------------------------------------------------------------
(* apply *)

\* if !normalized.ends_with("\n\n") { normalized.push('\n') }
push_unless_blank(normalized) ==
    IF ~ends_with(normalized, <<"\n", "\n">>) THEN Append(normalized, "\n") ELSE normalized

\* What the loop body appends to normalized for one emitted line.
apply_push(normalized, line) == push_unless_blank(normalized \o line)

\* The loop of apply over ls[k..], with the running normalized.
RECURSIVE apply_loop(_, _, _, _, _)
apply_line(filtered, ls, k, normalized, level, ctx) ==
    IF filtered.tag = "Panic" THEN Panic
    ELSE IF filtered.tag = "Some"
         THEN apply_loop(ls, k + 1, apply_push(normalized, filtered.val), level, ctx)
         ELSE apply_loop(ls, k + 1, normalized, level, ctx)

apply_loop(ls, k, normalized, level, ctx) ==
    IF k > Len(ls) THEN Ok(trim(normalized))
    ELSE apply_line(filter(ls[k], level, ctx), ls, k, normalized, level, ctx)

apply(original, level, ctx) == apply_loop(lines(original), 1, <<>>, level, ctx)

----------------------------------------------------------------------------
(* diagnostics and Variations *)

\* The text every level is applied to.
from_bytes(output) == replace(from_utf8_lossy(output), <<"\r", "\n">>, <<"\n">>)

\* .collect(): Ok(variations), or Panic when apply panicked at some level.
collect(applied) ==
    IF \E i \in 1..Len(applied) : applied[i].tag = "Panic" THEN Panic
    ELSE Ok([i \in 1..Len(applied) |-> applied[i].val])

diagnostics(output, ctx) ==
    collect([i \in 1..Len(Levels) |-> apply(from_bytes(output), Levels[i], ctx)])

\* Variations::preferred: last().unwrap().
preferred(vs) == IF vs = <<>> THEN Panic ELSE Ok(vs[Len(vs)])

\* Variations::any, the predicate f given as the set of strings it accepts.
any(vs, f) == \E i \in 1..Len(vs) : vs[i] \in f

----------------------------------------------------------------------------
(* The inputs the operations are run on. *)

\* Most leading spaces of a drawn line.
MaxIndent == 1
\* Most trailing spaces of a drawn line.
MaxTrail == 1
\* Most lines of a drawn text.
MaxLines == 3

TailPath == <<"/", "t", "m", "p", "/", "p", "r", "o", "j", "/", "s", "r", "c", "/", "m", "a", "i", "n", ".", "r", "s", ":", "3", ":", "5">>
TailBackslash == <<"/", "t", "m", "p", "/", "p", "r", "o", "j", "\\", "k", "r", ".", "r", "s">>
TailMixedCase == <<"/", "T", "M", "P", "/", "P", "r", "o", "j", "/", "k", "r">>
TailRustlib == <<"/", "t", "m", "p", "/", "r", "u", "s", "t", "l", "i", "b", "/", "s", "r", "c", "/", "r", "u", "s", "t", "/", "s", "r", "c", "/", "i", "p", ".", "r", "s">>
TailFoo == <<"a", " ", "F", "O", "O", " ", "b", " ", "f", "o", "o", " ", "c">>
KrateName == <<"k", "r">>
KrateInDir == <<"p", "r", "o", "j">>
SourceDir == <<"/", "t", "m", "p", "/", "p", "r", "o", "j">>
Workspace == <<"/", "t", "m", "p">>
FooDir == <<"F", "o", "o">>
ColonWorkspace == <<":">>
XToken == <<"X">>

Spaces(n) == [i \in 1..n |-> " "]

Heads == {<<>>, Arrow, Colons, AbortingDueTo, ToLearnMore, CouldNotCompileUpper,
          CouldNotCompileLower, ForMoreInformationThis, SomeErrorsDetailed,
          ForMoreInformationAn}

Tails == {<<>>, TailPath, TailBackslash, TailMixedCase, TailRustlib, TailFoo}

\* Single lines: indentation, a head the rules look for, a tail, trailing spaces.
LineInputs ==
    {Spaces(n) \o h \o t \o Spaces(m) :
        n \in 0..MaxIndent, h \in Heads, t \in Tails, m \in 0..MaxTrail}

TextLines == {<<>>, <<" ">>, <<"a">>, AbortingDueTo \o <<"x">>,
              CouldNotCompileUpper \o KrateName \o <<Backtick, InvalidByte>>,
              Colons \o TailRustlib}

\* Each line of ls followed by the terminator.
RECURSIVE Terminated(_, _)
Terminated(ls, terminator) ==
    IF ls = <<>> THEN <<>>
    ELSE Head(ls) \o terminator \o Terminated(Tail(ls), terminator)

\* Raw outputs of up to MaxLines lines, ended by "\n" or by "\r\n".
TextInputs ==
    {Terminated(ls, terminator) :
        ls \in UNION {[1..n -> TextLines] : n \in 0..MaxLines},
        terminator \in {<<"\n">>, <<"\r", "\n">>}}

Context(krate, source_dir, workspace) ==
    [krate |-> krate, source_dir |-> source_dir, workspace |-> workspace]

\* The usual shape: the workspace root is a prefix of the source directory.
PlainContext == Context(KrateName, SourceDir, Workspace)
\* A workspace root that occurs in the "::: " marker itself.
ColonContext == Context(KrateName, SourceDir, ColonWorkspace)

Contexts ==
    {PlainContext, ColonContext,
     Context(KrateInDir, SourceDir, Workspace),
     Context(KrateName, FooDir, Workspace)}

TextContexts == {PlainContext, ColonContext}

----------------------------------------------------------------------------
(* The state machine: an input and a Context are drawn, one operation runs. *)

Init ==
    /\ \/ pc = "line" /\ input \in LineInputs /\ context \in Contexts
       \/ pc = "output" /\ input \in TextInputs /\ context \in TextContexts
    /\ normalization = Basic
    /\ from = <<>>
    /\ to = <<>>
    /\ ret = Unset
    /\ variations = <<>>

\* trim(output)
Trim ==
    /\ pc = "output"
    /\ pc' = "trim"
    /\ ret' = Ok(trim(input))
    /\ UNCHANGED <<input, context, normalization, from, to, variations>>

\* filter(line, normalization, context), on a line as str::lines yields them
Filter ==
    /\ pc = "line"
    /\ \E level \in 1..Len(Levels) :
        /\ normalization' = Levels[level]
        /\ ret' = filter(input, Levels[level], context)
    /\ pc' = "filter"
    /\ UNCHANGED <<input, context, from, to, variations>>

\* apply(&from_bytes, normalization, context), as diagnostics calls it
Apply ==
    /\ pc = "output"
    /\ \E level \in 1..Len(Levels) :
        /\ normalization' = Levels[level]
        /\ ret' = apply(from_bytes(input), Levels[level], context)
    /\ pc' = "apply"
    /\ UNCHANGED <<input, context, from, to, variations>>

\* diagnostics(output, context)
Diagnostics ==
    /\ pc = "output"
    /\ \E result \in {diagnostics(input, context)} :
        /\ ret' = [tag |-> result.tag, val |-> <<>>]
        /\ variations' = result.val
    /\ pc' = "diagnostics"
    /\ UNCHANGED <<input, context, normalization, from, to>>

\* self.replace_case_insensitive(from, to), with the arguments filter passes,
\* with a one-character token and with an empty path
ReplaceCaseInsensitive ==
    /\ pc = "line"
    /\ \E args \in {<<context.source_dir, DirToken>>,
                    <<context.workspace, WorkspaceToken>>,
                    <<context.source_dir, XToken>>,
                    <<(<<>>), XToken>>} :
        /\ from' = args[1]
        /\ to' = args[2]
        /\ ret' = replace_case_insensitive(input, to_string_lossy(args[1]), args[2])
    /\ pc' = "replace_case_insensitive"
    /\ UNCHANGED <<input, context, normalization, variations>>

Next == Trim \/ Filter \/ Apply \/ Diagnostics \/ ReplaceCaseInsensitive

Spec == Init /\ [][Next]_vars

----------------------------------------------------------------------------
(* Vocabulary of the properties. *)

Separators == {"/", "\\"}

Contains(s, p) == \E i \in 0..(Len(s) - Len(p)) : matches_at(s, p, i)

ContainsIgnoringCase(s, p) == Contains(to_ascii_lowercase(s), to_ascii_lowercase(p))

AllWhitespace(s) == \A i \in 1..Len(s) : is_whitespace(s[i])

\* How many whitespace characters the line begins with.
LeadingWhitespace(s) ==
    IF AllWhitespace(s) THEN Len(s)
    ELSE (CHOOSE k \in 1..Len(s) :
            ~is_whitespace(s[k]) /\ \A j \in 1..(k - 1) : is_whitespace(s[j])) - 1

\* The line with its leading whitespace removed begins with the marker.
BeginsWith(s, marker) == matches_at(s, marker, LeadingWhitespace(s))

\* The lines for which filter returns from one of its two location rules.
IsLocationLine(s) ==
    \/ BeginsWith(s, Arrow) /\ \E i \in 1..Len(s) : s[i] \in Separators
    \/ BeginsWith(s, Colons)

\* s[i + 1 ..] begins with the needle, ASCII case ignored.
MatchesIgnoringCase(s, needle, i) ==
    /\ i + Len(needle) <= Len(s)
    /\ \A k \in 1..Len(needle) :
          char_to_ascii_lowercase(s[i + k]) = char_to_ascii_lowercase(needle[k])

\* Case-insensitive replacement written as a scan from offset i on, for a
\* non-empty needle: the text up to the next match is copied as it stands,
\* the token replaces the match, and the scan goes on after the match.
RECURSIVE ScanFrom(_, _, _, _)
ScanFrom(s, needle, token, i) ==
    LET matches == {j \in i..(Len(s) - Len(needle)) : MatchesIgnoringCase(s, needle, j)}
    IN  IF matches = {} THEN SubSeq(s, i + 1, Len(s))
        ELSE LET j == CHOOSE m \in matches : \A n \in matches : m <= n
             IN  SubSeq(s, i + 1, j) \o token \o ScanFrom(s, needle, token, j + Len(needle))

\* An empty needle matches before every character and at the end.
ScanReplace(s, needle, token) ==
    IF needle = <<>>
    THEN concat([k \in 1..(Len(s) + 1) |->
                    IF k <= Len(s) THEN token \o <<s[k]>> ELSE token])
    ELSE ScanFrom(s, needle, token, 0)

\* The characters of the four output tokens.
TokenCharacters ==
    UNION {{t[i] : i \in 1..Len(t)} : t \in {CrateToken, DirToken, WorkspaceToken, RustToken}}

\* A non-empty package identifier sharing no character with the tokens.
PlainKrate(krate) ==
    krate # <<>> /\ \A i \in 1..Len(krate) : krate[i] \notin TokenCharacters

IsCouldNotCompile(line) == starts_with(line, CouldNotCompileUpper)

KeptLine(line) == ~IsCouldNotCompile(line)

\* The text with its "error: Could not compile" lines taken out.
WithoutCouldNotCompile(text) == Terminated(SelectSeq(lines(text), KeptLine), <<"\n">>)

----------------------------------------------------------------------------
(* C1 *)

\* The snapshots any() is tried on: every level's output of the text and of
\* the text without its "Could not compile" lines, the text itself, nothing.
Snapshots(text, ctx) ==
    {apply(text, Levels[i], ctx).val : i \in 1..Len(Levels)}
    \cup {apply(WithoutCouldNotCompile(text), Levels[i], ctx).val : i \in 1..Len(Levels)}
    \cup {text, <<>>}

\* C1: when diagnostics returns for a raw output holding a line that starts
\* with "error: Could not compile", the Variations hold 8 strings; the Basic
\* one keeps that line (as filter emits it at Basic, up to the final trim);
\* every one from StripCouldNotCompile on is what the output without the line
\* gives at that level; any(v = snapshot) is true of both forms, and any(p)
\* is true exactly when some level's output satisfies p.
C1_BackwardCompatible ==
    (pc = "diagnostics" /\ ret.tag = "Ok"
        /\ \E k \in 1..Len(lines(from_bytes(input))) :
              IsCouldNotCompile(lines(from_bytes(input))[k]))
    => LET text == from_bytes(input)
           ls == lines(text)
           without == WithoutCouldNotCompile(text)
           outputs == {apply(text, Levels[i], context).val : i \in 1..Len(Levels)}
       IN  /\ Len(variations) = 8
           /\ \A k \in 1..Len(ls) :
                 IsCouldNotCompile(ls[k]) =>
                    \E m \in 1..Len(lines(variations[1])) :
                        lines(variations[1])[m] = trim_end(filter(ls[k], Basic, context).val)
           /\ \A i \in 2..Len(Levels) :
                 variations[i] = apply(without, Levels[i], context).val
           /\ any(variations, {apply(text, Basic, context).val})
           /\ any(variations, {apply(without, RustLib, context).val})
           /\ \A accepted \in SUBSET Snapshots(text, context) :
                 any(variations, accepted)
                 <=> \E output \in outputs : output \in accepted

\* diagnostics has returned for a "Could not compile" line followed by other
\* content, and the kept and the dropped forms differ.
C1_Witness ==
    /\ pc = "diagnostics" /\ ret.tag = "Ok"
    /\ Len(lines(from_bytes(input))) >= 2
    /\ IsCouldNotCompile(lines(from_bytes(input))[1])
    /\ variations[1] # variations[2]
    /\ variations[2] # <<>>

----------------------------------------------------------------------------
(* C2 *)

\* C2: a line filter drops at a level is dropped at every higher level.
C2_Monotonic ==
    (pc = "filter" /\ ret.tag = "None")
    => \A i \in 1..Len(Levels) :
          Levels[i] > normalization => filter(input, Levels[i], context).tag = "None"

\* A line kept at Basic has been dropped at a level that has levels above it.
C2_Witness ==
    /\ pc = "filter" /\ ret.tag = "None"
    /\ normalization = StripCouldNotCompile2
    /\ filter(input, Basic, context).tag = "Some"

----------------------------------------------------------------------------
(* C3 *)

\* C3: a line that begins, after leading whitespace, with "--> " and holds a
\* path separator comes out as its prefix up to and including "--> ", then
\* "$DIR/", then the text after its last separator, the same at all 8 levels;
\* "--> /tmp/proj/src/main.rs:3:5" becomes "--> $DIR/main.rs:3:5".
C3_PointsAt ==
    (pc = "filter" /\ BeginsWith(input, Arrow)
        /\ \E i \in 1..Len(input) : input[i] \in Separators)
    => /\ \E k \in 1..Len(input) :
             /\ input[k] \in Separators
             /\ \A j \in (k + 1)..Len(input) : input[j] \notin Separators
             /\ ret = Some(SubSeq(input, 1, LeadingWhitespace(input) + Len(Arrow))
                           \o DirSlash \o SubSeq(input, k + 1, Len(input)))
       /\ \A i \in 1..Len(Levels) : filter(input, Levels[i], context) = ret
       /\ input = Arrow \o TailPath
             => ret.val = Arrow \o DirSlash \o <<"m", "a", "i", "n", ".", "r", "s", ":", "3", ":", "5">>

\* filter has run on an indented "--> " line whose last separator is a backslash.
C3_Witness ==
    /\ pc = "filter" /\ ret.tag = "Some"
    /\ input = Spaces(1) \o Arrow \o TailBackslash
    /\ normalization = TrimEnd

----------------------------------------------------------------------------
(* C4 *)

\* C4 as claimed: no line filter emits, location lines included, holds the
\* package identifier (non-empty, sharing no character with the tokens).
C4_AsClaimed ==
    (pc = "filter" /\ ret.tag = "Some" /\ PlainKrate(context.krate))
    => ~Contains(ret.val, context.krate)

\* C4: no line filter emits from its rewrites (a line it neither drops nor
\* returns from the "--> " or "::: " rule) holds the package identifier
\* (non-empty, sharing no character with the tokens).
C4_PackageRedaction ==
    (pc = "filter" /\ ret.tag = "Some" /\ PlainKrate(context.krate)
        /\ ~IsLocationLine(input))
    => ~Contains(ret.val, context.krate)

\* filter has emitted a line, not a location line, that held the package identifier.
C4_Witness ==
    /\ pc = "filter" /\ ret.tag = "Some" /\ PlainKrate(context.krate)
    /\ ~IsLocationLine(input)
    /\ Contains(input, context.krate)
    /\ Contains(ret.val, CrateToken)

----------------------------------------------------------------------------
(* C5 *)

\* C5: a surviving line, not a location line, that holds the source directory
\* (in any case) comes out with "$DIR" and without the source directory.
C5_SourceDirRedaction ==
    (pc = "filter" /\ ret.tag = "Some" /\ ~IsLocationLine(input)
        /\ to_string_lossy(context.source_dir) # <<>>
        /\ ContainsIgnoringCase(input, to_string_lossy(context.source_dir)))
    => /\ Contains(ret.val, DirToken)
       /\ ~ContainsIgnoringCase(ret.val, to_string_lossy(context.source_dir))

----------------------------------------------------------------------------
(* C6 *)

\* C6: replace_case_insensitive returns the haystack with every match of the
\* needle, found left to right ignoring ASCII case, replaced by the token and
\* every other character copied as it stands; without a match it returns the
\* haystack; "Foo" in "a FOO b foo c" replaced by "X" gives "a X b X c".
C6_ReplaceCaseInsensitive ==
    pc = "replace_case_insensitive"
    => /\ ret = Ok(ScanReplace(input, to_string_lossy(from), to))
       /\ ~ContainsIgnoringCase(input, to_string_lossy(from)) => ret.val = input
       /\ (input = TailFoo /\ from = FooDir /\ to = XToken)
             => ret.val = <<"a", " ", "X", " ", "b", " ", "X", " ", "c">>

\* replace_case_insensitive has run on the example.
C6_Witness ==
    /\ pc = "replace_case_insensitive"
    /\ input = TailFoo /\ from = FooDir /\ to = XToken
    /\ ret.tag = "Ok"

----------------------------------------------------------------------------
(* C7 *)

\* The line holds the workspace root (in any case) and, after it, the
\* standard-library marker.
WorkspaceThenMarker(s, workspace) ==
    /\ workspace # <<>>
    /\ \E i \in 0..Len(s), j \in 0..Len(s) :
          /\ matches_at(to_ascii_lowercase(s), to_ascii_lowercase(workspace), i)
          /\ i + Len(workspace) <= j
          /\ matches_at(s, RustlibMarker, j)

\* C7: a line that begins, after leading whitespace, with "::: " and holds the
\* workspace root followed by "/rustlib/src/rust/src/" is emitted at every
\* level: below RustLib with the workspace root replaced by "$WORKSPACE" and
\* backslashes by '/', at RustLib with everything between the "::: " prefix
\* and the "/src/" tail of the marker collapsed to "$RUST".
C7_SecondaryLocation ==
    (pc = "filter" /\ BeginsWith(input, Colons)
        /\ WorkspaceThenMarker(input, to_string_lossy(context.workspace)))
    => LET base == replace(ScanReplace(input, to_string_lossy(context.workspace),
                                       WorkspaceToken),
                           <<"\\">>, <<"/">>)
           prefix == SubSeq(input, 1, LeadingWhitespace(input) + Len(Colons))
       IN  /\ ret.tag = "Some"
           /\ normalization < RustLib => ret.val = base
           /\ normalization = RustLib =>
                 \E j \in 0..Len(base) :
                    /\ matches_at(base, RustlibMarker, j)
                    /\ ret.val = prefix \o RustToken
                                 \o SubSeq(base, j + Len(RustlibMarker) - 4, Len(base))

----------------------------------------------------------------------------
(* C8 *)

\* C8: trim returns the empty string exactly when the decoded input is empty
\* or all whitespace; otherwise it returns the decoded input up to its last
\* non-whitespace character, unchanged, followed by one "\n".
C8_Trim ==
    pc = "trim"
    => LET decoded == from_utf8_lossy(input)
       IN  /\ ret.tag = "Ok"
           /\ ret.val = <<>> <=> AllWhitespace(decoded)
           /\ ret.val # <<>> =>
                 \E k \in 1..Len(decoded) :
                    /\ ~is_whitespace(decoded[k])
                    /\ \A j \in (k + 1)..Len(decoded) : is_whitespace(decoded[j])
                    /\ ret.val = Append(SubSeq(decoded, 1, k), "\n")

\* trim has cut more than one trailing whitespace character off an input
\* that held an invalid byte.
C8_Witness ==
    /\ pc = "trim" /\ ret.val # <<>>
    /\ Len(ret.val) + 1 < Len(input)
    /\ \E i \in 1..Len(input) : input[i] = InvalidByte

----------------------------------------------------------------------------
(* C9 *)

\* C9: trim and diagnostics return for every input and every Context, and
\* the Variations hold 8 strings, the last of them the RustLib output.
C9_Total ==
    /\ pc \in {"trim", "diagnostics"} => ret.tag = "Ok"
    /\ pc = "diagnostics"
          => /\ Len(variations) = 8
             /\ preferred(variations) = apply(from_bytes(input), RustLib, context)

----------------------------------------------------------------------------
(* C10 *)

\* C10: the text apply returns never holds three "\n" in a row and never
\* begins with two "\n".
C10_BlankLines ==
    (pc = "apply" /\ ret.tag = "Ok")
    => /\ ~Contains(ret.val, <<"\n", "\n", "\n">>)
       /\ ~starts_with(ret.val, <<"\n", "\n">>)

====
